---------------------------- MODULE Spec2Model ----------------------------
(***************************************************************************)
(* A model of the postfix stack interpreter of src/src/main.rs.            *)
(*                                                                         *)
(* A line of text is a sequence of characters (one-character strings), a   *)
(* word is a sequence of characters too.  `main` feeds every line of the   *)
(* standard input to `parse`, which creates a fresh Vm, splits the line on *)
(* the space character and processes the words from left to right.         *)
(* `op_if` runs its blocks token by token; its activation records are kept *)
(* in `ctrl`, the call stack of the nested op_if invocations.              *)
(*                                                                         *)
(* The source calls eval with the stack where it declares a Vm, returns    *)
(* `stack` where it owns `vm.stack`, and calls an op_def it does not       *)
(* define: the model reads eval/op_if as working on the one Vm of the      *)
(* line, parse as returning vm.stack, and takes op_def from the            *)
(* specification text.                                                     *)
(***************************************************************************)
EXTENDS Integers, Sequences, FiniteSets, TLC

VARIABLES
  lines,     \* the lines standard input delivers, each a sequence of characters
  wrapping,  \* the build: TRUE when integer overflow wraps (overflow checks off)
  lineNo,    \* the number of lines main has taken from standard input
  pc,        \* "main", "parse", "panic" or "exit"
  input,     \* parse: the words of the line, line.split(" ")
  words,     \* parse: the words of the line not yet consumed, a suffix of input
  stack,     \* vm.stack
  vars,      \* vm.vars
  ctrl,      \* the activation records of the running op_if calls, innermost last
  err,       \* the kind of the panic that ended the process, or "none"
  out        \* the stacks parse has printed and returned, one per finished line

vars_all == <<lines, wrapping, lineNo, pc, input, words, stack, vars, ctrl, err, out>>

---------------------------------------------------------------------------
(* Bounds of the model *)

\* words per line of the family of short top-level lines
MaxWords == 3
\* tokens of the condition block of the family of `if` lines
MaxCondLen == 3
\* lines per input of the family of multi-line inputs
MaxLines == 3
\* phrases per line of the family of `def` lines
MaxPhrases == 3
\* nested op_if activations the host's call stack holds
MaxDepth == 4

---------------------------------------------------------------------------
(* i32 *)

I32Max == 2147483647
I32Min == (-I32Max) - 1

\* Value (main.rs 27-33); the fields a variant does not have are empty
Num(n)   == [tag |-> "Num",   num |-> n, text |-> <<>>, items |-> <<>>]
Op(w)    == [tag |-> "Op",    num |-> 0, text |-> w,    items |-> <<>>]
Sym(w)   == [tag |-> "Sym",   num |-> 0, text |-> w,    items |-> <<>>]
Block(s) == [tag |-> "Block", num |-> 0, text |-> <<>>, items |-> s]

Digits == {"0", "1", "2", "3", "4", "5", "6", "7", "8", "9"}

DigitVal(c) ==
  CASE c = "0" -> 0 [] c = "1" -> 1 [] c = "2" -> 2 [] c = "3" -> 3
    [] c = "4" -> 4 [] c = "5" -> 5 [] c = "6" -> 6 [] c = "7" -> 7
    [] c = "8" -> 8 [] c = "9" -> 9

\* the digits of w from position i on, accumulated on acc away from zero in
\* the direction of sign (1 or -1); fails on a non-digit and on i32 overflow
RECURSIVE ParseDigits(_, _, _, _)
ParseDigits(w, i, acc, sign) ==
  IF i > Len(w) THEN [ok |-> TRUE, val |-> acc]
  ELSE IF w[i] \notin Digits THEN [ok |-> FALSE, val |-> 0]
  ELSE LET d == DigitVal(w[i]) IN
       IF sign = 1
       THEN IF acc > (I32Max - d) \div 10
            THEN [ok |-> FALSE, val |-> 0]
            ELSE ParseDigits(w, i + 1, acc * 10 + d, sign)
       ELSE IF acc < (I32Min + d + 9) \div 10
            THEN [ok |-> FALSE, val |-> 0]
            ELSE ParseDigits(w, i + 1, acc * 10 - d, sign)

\* word.parse::<i32>(): an optional sign, then at least one decimal digit
ParseI32(w) ==
  IF Len(w) = 0 THEN [ok |-> FALSE, val |-> 0]
  ELSE IF w[1] = "-"
       THEN IF Len(w) = 1 THEN [ok |-> FALSE, val |-> 0]
            ELSE ParseDigits(w, 2, 0, -1)
  ELSE IF w[1] = "+"
       THEN IF Len(w) = 1 THEN [ok |-> FALSE, val |-> 0]
            ELSE ParseDigits(w, 2, 0, 1)
  ELSE ParseDigits(w, 1, 0, 1)

---------------------------------------------------------------------------
(* Integer arithmetic of i32: lhs + rhs, lhs - rhs, lhs * rhs, lhs / rhs.  *)
(* Every intermediate value stays inside the i32 range.                    *)

AddOverflows(l, r) == (r > 0 /\ l > I32Max - r) \/ (r < 0 /\ l < I32Min - r)

WrapAdd(l, r) ==
  IF r > 0 /\ l > I32Max - r THEN (l - I32Max - 1) + (r - I32Max - 1)
  ELSE IF r < 0 /\ l < I32Min - r THEN (l + I32Max + 1) + (r + I32Max + 1)
  ELSE l + r

SubOverflows(l, r) == (r < 0 /\ l > I32Max + r) \/ (r > 0 /\ l < I32Min + r)

WrapSub(l, r) ==
  IF r < 0 /\ l > I32Max + r THEN (l - I32Max - 1) - (r + I32Max + 1)
  ELSE IF r > 0 /\ l < I32Min + r THEN (l + I32Max + 1) - (r - I32Max - 1)
  ELSE l - r

MulOverflows(l, r) ==
  IF l = 0 \/ r = 0 THEN FALSE
  ELSE IF l > 0 /\ r > 0 THEN l > I32Max \div r
  ELSE IF l > 0 /\ r < 0 THEN r < (I32Min + l - 1) \div l
  ELSE IF l < 0 /\ r > 0 THEN l < (I32Min + r - 1) \div r
  ELSE IF l = I32Min \/ r = I32Min THEN TRUE
  ELSE (-l) > I32Max \div (-r)

\* l + l modulo 2^32
Twice(l) == WrapAdd(l, l)

\* l * d modulo 2^32 for a hexadecimal digit d
DigitMul(l, d) ==
  LET b0 == IF d % 2 = 1 THEN l ELSE 0
      b1 == IF (d \div 2) % 2 = 1 THEN Twice(l) ELSE 0
      b2 == IF (d \div 4) % 2 = 1 THEN Twice(Twice(l)) ELSE 0
      b3 == IF (d \div 8) % 2 = 1 THEN Twice(Twice(Twice(l))) ELSE 0
  IN WrapAdd(WrapAdd(b0, b1), WrapAdd(b2, b3))

\* l * 2^k modulo 2^32, for k in 0..31
Shl(l, k) ==
  IF k = 0 THEN l
  ELSE LET m   == 2^(32 - k)
           low == l % m
       IN IF low >= m \div 2 THEN (low - m) * 2^(k - 1) * 2
          ELSE low * 2^(k - 1) * 2

\* the k-th hexadecimal digit of the two's complement of r, for k in 0..7
HexDigit(r, k) == (r \div 16^k) % 16

\* l * r modulo 2^32: the sum of the products of l with the digits of r
WrapMul(l, r) ==
  LET t(k) == DigitMul(Shl(l, 4 * k), HexDigit(r, k))
  IN WrapAdd(WrapAdd(WrapAdd(t(0), t(1)), WrapAdd(t(2), t(3))),
             WrapAdd(WrapAdd(t(4), t(5)), WrapAdd(t(6), t(7))))

\* l / r rounded toward zero, for r # 0 and (l, r) # (I32Min, -1)
TruncDiv(l, r) ==
  IF r > 0 THEN (IF l >= 0 THEN l \div r ELSE (l + r - 1) \div r)
  ELSE IF r = I32Min THEN (IF l = I32Min THEN 1 ELSE 0)
  ELSE IF l >= 0 THEN -(l \div (-r))
  ELSE -((l + (-r) - 1) \div (-r))

\* the value of `lhs op rhs`, or the arithmetic panic of the build
Arith(op, l, r, wrap) ==
  CASE op = "+" -> IF AddOverflows(l, r) /\ ~wrap THEN [ok |-> FALSE, val |-> 0]
                   ELSE [ok |-> TRUE, val |-> WrapAdd(l, r)]
    [] op = "-" -> IF SubOverflows(l, r) /\ ~wrap THEN [ok |-> FALSE, val |-> 0]
                   ELSE [ok |-> TRUE, val |-> WrapSub(l, r)]
    [] op = "*" -> IF MulOverflows(l, r) /\ ~wrap THEN [ok |-> FALSE, val |-> 0]
                   ELSE [ok |-> TRUE, val |-> WrapMul(l, r)]
    [] op = "/" -> IF r = 0 \/ (l = I32Min /\ r = -1) THEN [ok |-> FALSE, val |-> 0]
                   ELSE [ok |-> TRUE, val |-> TruncDiv(l, r)]

---------------------------------------------------------------------------
(* The stack machine *)

\* HashMap::new()
EmptyMap == [k \in {} |-> Num(0)]

\* a Vm that outlives the call of parse
Vm_kept == [stack |-> stack, vars |-> vars]

\* Vm::new()
Vm_new == [stack |-> <<>>, vars |-> EmptyMap]

\* the stack without its top element
Front(st) == SubSeq(st, 1, Len(st) - 1)

\* the outcome of one operation: the stack it leaves and the kind of its panic
\*   "StackUnderflow"      Option::unwrap() on the None of an empty stack
\*   "TypeMismatch"        "Value is not a number" / "Value is not a block"
\*   "UndefinedOperation"  "... is not a defined operation"
\*   "ArithmeticFault"     division by zero, arithmetic overflow
Outcome(st, e) == [stack |-> st, err |-> e]

\* BinOp testing the depth of the stack before it pops anything
BinOp_depth_first(op, st, wrap) ==
  IF Len(st) < 2 THEN Outcome(st, "StackUnderflow")
  ELSE LET rhs == st[Len(st)]
           lhs == st[Len(st) - 1]
           s2  == SubSeq(st, 1, Len(st) - 2) IN
       IF rhs.tag # "Num" \/ lhs.tag # "Num" THEN Outcome(s2, "TypeMismatch")
       ELSE LET r == Arith(op, lhs.num, rhs.num, wrap) IN
            IF r.ok THEN Outcome(Append(s2, Num(r.val)), "none")
            ELSE Outcome(s2, "ArithmeticFault")

\* add, sub, mul, div: rhs = pop().unwrap().as_num(), lhs = pop().unwrap().as_num(),
\* push(Num(lhs op rhs))
BinOp(op, st, wrap) ==
  IF st = <<>> THEN Outcome(st, "StackUnderflow")
  ELSE LET rhs == st[Len(st)]
           s1  == Front(st) IN
       IF rhs.tag # "Num" THEN Outcome(s1, "TypeMismatch")
       ELSE IF s1 = <<>> THEN Outcome(s1, "StackUnderflow")
       ELSE LET lhs == s1[Len(s1)]
                s2  == Front(s1) IN
            IF lhs.tag # "Num" THEN Outcome(s2, "TypeMismatch")
            ELSE LET r == Arith(op, lhs.num, rhs.num, wrap) IN
                 IF r.ok THEN Outcome(Append(s2, Num(r.val)), "none")
                 ELSE Outcome(s2, "ArithmeticFault")

add(st, wrap) == BinOp("+", st, wrap)

sub(st, wrap) == BinOp("-", st, wrap)

mul(st, wrap) == BinOp("*", st, wrap)

div(st, wrap) == BinOp("/", st, wrap)

\* an activation record of op_if: the phase ("cond" while the condition block
\* runs, "branch" while the chosen branch runs), the tokens of the running
\* block still to evaluate, and the two branches while the condition runs
CondFrame(cond, tb, fb) ==
  [phase |-> "cond", code |-> cond, true_branch |-> tb, false_branch |-> fb]

BranchFrame(code) ==
  [phase |-> "branch", code |-> code, true_branch |-> <<>>, false_branch |-> <<>>]

\* op_if reading its three blocks and leaving them on the stack
op_if_peeking(st) ==
  IF Len(st) < 3 THEN [stack |-> st, err |-> "StackUnderflow", frame |-> <<>>]
  ELSE LET fb   == st[Len(st)]
           tb   == st[Len(st) - 1]
           cond == st[Len(st) - 2] IN
       IF fb.tag # "Block" \/ tb.tag # "Block" \/ cond.tag # "Block"
       THEN [stack |-> st, err |-> "TypeMismatch", frame |-> <<>>]
       ELSE [stack |-> st, err |-> "none",
             frame |-> <<CondFrame(cond.items, tb.items, fb.items)>>]

\* op_if popping the true branch before the false branch
op_if_true_first(st) ==
  IF st = <<>> THEN [stack |-> st, err |-> "StackUnderflow", frame |-> <<>>]
  ELSE LET tb == st[Len(st)]
           s1 == Front(st) IN
       IF tb.tag # "Block" THEN [stack |-> s1, err |-> "TypeMismatch", frame |-> <<>>]
       ELSE IF s1 = <<>> THEN [stack |-> s1, err |-> "StackUnderflow", frame |-> <<>>]
       ELSE LET fb == s1[Len(s1)]
                s2 == Front(s1) IN
            IF fb.tag # "Block" THEN [stack |-> s2, err |-> "TypeMismatch", frame |-> <<>>]
            ELSE IF s2 = <<>> THEN [stack |-> s2, err |-> "StackUnderflow", frame |-> <<>>]
            ELSE LET cond == s2[Len(s2)]
                     s3   == Front(s2) IN
                 IF cond.tag # "Block"
                 THEN [stack |-> s3, err |-> "TypeMismatch", frame |-> <<>>]
                 ELSE [stack |-> s3, err |-> "none",
                       frame |-> <<CondFrame(cond.items, tb.items, fb.items)>>]

\* op_if, lines 157-159: the three pops; the frame of the call it starts
op_if(st) ==
  IF st = <<>> THEN [stack |-> st, err |-> "StackUnderflow", frame |-> <<>>]
  ELSE LET fb == st[Len(st)]
           s1 == Front(st) IN
       IF fb.tag # "Block" THEN [stack |-> s1, err |-> "TypeMismatch", frame |-> <<>>]
       ELSE IF s1 = <<>> THEN [stack |-> s1, err |-> "StackUnderflow", frame |-> <<>>]
       ELSE LET tb == s1[Len(s1)]
                s2 == Front(s1) IN
            IF tb.tag # "Block" THEN [stack |-> s2, err |-> "TypeMismatch", frame |-> <<>>]
            ELSE IF s2 = <<>> THEN [stack |-> s2, err |-> "StackUnderflow", frame |-> <<>>]
            ELSE LET cond == s2[Len(s2)]
                     s3   == Front(s2) IN
                 IF cond.tag # "Block"
                 THEN [stack |-> s3, err |-> "TypeMismatch", frame |-> <<>>]
                 ELSE [stack |-> s3, err |-> "none",
                       frame |-> <<CondFrame(cond.items, tb.items, fb.items)>>]

\* if_choose reading the truth value and leaving it on the stack
if_choose_peek(st, fr) ==
  IF st = <<>> THEN [stack |-> st, err |-> "StackUnderflow", frame |-> <<>>]
  ELSE LET cond_result == st[Len(st)] IN
       IF cond_result.tag # "Num"
       THEN [stack |-> Front(st), err |-> "TypeMismatch", frame |-> <<>>]
       ELSE [stack |-> st, err |-> "none",
             frame |-> <<BranchFrame(IF cond_result.num # 0
                                     THEN fr.true_branch ELSE fr.false_branch)>>]

\* if_choose with the test of the truth value inverted
if_choose_inverted(st, fr) ==
  IF st = <<>> THEN [stack |-> st, err |-> "StackUnderflow", frame |-> <<>>]
  ELSE LET cond_result == st[Len(st)]
           s1          == Front(st) IN
       IF cond_result.tag # "Num"
       THEN [stack |-> s1, err |-> "TypeMismatch", frame |-> <<>>]
       ELSE [stack |-> s1, err |-> "none",
             frame |-> <<BranchFrame(IF cond_result.num = 0
                                     THEN fr.true_branch ELSE fr.false_branch)>>]

\* op_if, lines 165-175: the truth value is popped and the branch chosen
if_choose(st, fr) ==
  IF st = <<>> THEN [stack |-> st, err |-> "StackUnderflow", frame |-> <<>>]
  ELSE LET cond_result == st[Len(st)]
           s1          == Front(st) IN
       IF cond_result.tag # "Num"
       THEN [stack |-> s1, err |-> "TypeMismatch", frame |-> <<>>]
       ELSE [stack |-> s1, err |-> "none",
             frame |-> <<BranchFrame(IF cond_result.num # 0
                                     THEN fr.true_branch ELSE fr.false_branch)>>]

\* vars.insert(key, value)
Insert(vs, key, value) ==
  [k \in (DOMAIN vs) \cup {key} |-> IF k = key THEN value ELSE vs[k]]

\* op_def: the top of the stack is the value, the next value the Symbol that
\* names it; the binding is inserted or overwritten and nothing is pushed
op_def(st, vs) ==
  IF st = <<>> THEN [stack |-> st, vars |-> vs, err |-> "StackUnderflow"]
  ELSE LET value == st[Len(st)]
           s1    == Front(st) IN
       IF s1 = <<>> THEN [stack |-> s1, vars |-> vs, err |-> "StackUnderflow"]
       ELSE LET sym == s1[Len(s1)]
                s2  == Front(s1) IN
            IF sym.tag # "Sym" THEN [stack |-> s2, vars |-> vs, err |-> "TypeMismatch"]
            ELSE [stack |-> s2, vars |-> Insert(vs, sym.text, value), err |-> "none"]

\* lookup pushing the name it was asked for instead of the bound value
lookup_name(op, st, vs) ==
  IF op \in DOMAIN vs THEN Outcome(Append(st, Op(op)), "none")
  ELSE Outcome(st, "UndefinedOperation")

\* lookup taking an unbound name for a no-op
lookup_lenient(op, st, vs) ==
  IF op \in DOMAIN vs THEN Outcome(Append(st, vs[op]), "none")
  ELSE Outcome(st, "none")

\* eval, lines 97-102: an operator that is no built-in is looked up in vars
lookup(op, st, vs) ==
  IF op \in DOMAIN vs THEN Outcome(Append(st, vs[op]), "none")
  ELSE Outcome(st, "UndefinedOperation")

\* the result of eval: the Vm it leaves, the kind of its panic, and the
\* activation record of the op_if call it is in, if it is in one
Result(st, vs, e, fr) == [stack |-> st, vars |-> vs, err |-> e, frame |-> fr]

\* eval running a Block it is given instead of pushing it
eval_running_blocks(code, st, vs, wrap) ==
  IF code.tag = "Op"
  THEN CASE code.text = <<"+">> ->
              LET r == add(st, wrap) IN Result(r.stack, vs, r.err, <<>>)
         [] code.text = <<"-">> ->
              LET r == sub(st, wrap) IN Result(r.stack, vs, r.err, <<>>)
         [] code.text = <<"*">> ->
              LET r == mul(st, wrap) IN Result(r.stack, vs, r.err, <<>>)
         [] code.text = <<"/">> ->
              LET r == div(st, wrap) IN Result(r.stack, vs, r.err, <<>>)
         [] code.text = <<"i", "f">> ->
              LET r == op_if(st) IN Result(r.stack, vs, r.err, r.frame)
         [] code.text = <<"d", "e", "f">> ->
              LET r == op_def(st, vs) IN Result(r.stack, r.vars, r.err, <<>>)
         [] OTHER ->
              LET r == lookup(code.text, st, vs) IN Result(r.stack, vs, r.err, <<>>)
  ELSE IF code.tag = "Block" THEN Result(st, vs, "none", <<BranchFrame(code.items)>>)
  ELSE Result(Append(st, code), vs, "none", <<>>)

\* eval taking the binding out of vars when it looks a name up
eval_taking_binding(code, st, vs, wrap) ==
  IF code.tag = "Op"
  THEN CASE code.text = <<"+">> ->
              LET r == add(st, wrap) IN Result(r.stack, vs, r.err, <<>>)
         [] code.text = <<"-">> ->
              LET r == sub(st, wrap) IN Result(r.stack, vs, r.err, <<>>)
         [] code.text = <<"*">> ->
              LET r == mul(st, wrap) IN Result(r.stack, vs, r.err, <<>>)
         [] code.text = <<"/">> ->
              LET r == div(st, wrap) IN Result(r.stack, vs, r.err, <<>>)
         [] code.text = <<"i", "f">> ->
              LET r == op_if(st) IN Result(r.stack, vs, r.err, r.frame)
         [] code.text = <<"d", "e", "f">> ->
              LET r == op_def(st, vs) IN Result(r.stack, r.vars, r.err, <<>>)
         [] OTHER ->
              LET r == lookup(code.text, st, vs) IN
              Result(r.stack, [k \in (DOMAIN vs) \ {code.text} |-> vs[k]], r.err, <<>>)
  ELSE Result(Append(st, code), vs, "none", <<>>)

\* eval, lines 88-105
eval(code, st, vs, wrap) ==
  IF code.tag = "Op"
  THEN CASE code.text = <<"+">> ->
              LET r == add(st, wrap) IN Result(r.stack, vs, r.err, <<>>)
         [] code.text = <<"-">> ->
              LET r == sub(st, wrap) IN Result(r.stack, vs, r.err, <<>>)
         [] code.text = <<"*">> ->
              LET r == mul(st, wrap) IN Result(r.stack, vs, r.err, <<>>)
         [] code.text = <<"/">> ->
              LET r == div(st, wrap) IN Result(r.stack, vs, r.err, <<>>)
         [] code.text = <<"i", "f">> ->
              LET r == op_if(st) IN Result(r.stack, vs, r.err, r.frame)
         [] code.text = <<"d", "e", "f">> ->
              LET r == op_def(st, vs) IN Result(r.stack, r.vars, r.err, <<>>)
         [] OTHER ->
              LET r == lookup(code.text, st, vs) IN Result(r.stack, vs, r.err, <<>>)
  ELSE Result(Append(st, code), vs, "none", <<>>)

---------------------------------------------------------------------------
(* The tokenizer and the block parser *)

\* line.split(" "): the pieces of s between its spaces, one more than it has
\* spaces, computed by halving s at the space nearest its middle
Spaces(s) == {i \in 1..Len(s) : s[i] = " "}

Dist(i, m) == IF i < m THEN m - i ELSE i - m

RECURSIVE split(_)
split(s) ==
  IF Spaces(s) = {} THEN <<s>>
  ELSE LET m == (Len(s) + 1) \div 2
           i == CHOOSE x \in Spaces(s) : \A y \in Spaces(s) : Dist(x, m) <= Dist(y, m)
       IN split(SubSeq(s, 1, i - 1)) \o split(SubSeq(s, i + 1, Len(s)))

\* classify keeping the `/` in the payload of a Symbol
classify_unstripped(word) ==
  LET p == ParseI32(word) IN
  IF p.ok THEN Num(p.val)
  ELSE IF Len(word) > 0 /\ word[1] = "/" THEN Sym(word)
  ELSE Op(word)

\* classify taking the lone word `/` for the division operator
classify_slash_op(word) ==
  LET p == ParseI32(word) IN
  IF p.ok THEN Num(p.val)
  ELSE IF Len(word) > 1 /\ word[1] = "/" THEN Sym(Tail(word))
  ELSE Op(word)

\* parse, lines 71-77: the token of a top-level word
classify(word) ==
  LET p == ParseI32(word) IN
  IF p.ok THEN Num(p.val)
  ELSE IF Len(word) > 0 /\ word[1] = "/" THEN Sym(Tail(word))
  ELSE Op(word)

\* block_token classifying the words of a group as parse does the top-level ones
block_token_prefixed(word) == classify(word)

\* parse_block, lines 121-125: the token of a word of a group
block_token(word) ==
  LET p == ParseI32(word) IN
  IF p.ok THEN Num(p.val) ELSE Op(word)

\* parse_block, lines 111-129: the loop, with the tokens accumulated so far
RECURSIVE parse_block_loop(_, _)
parse_block_loop(tokens, ws) ==
  IF ws = <<>> THEN [value |-> Block(tokens), rest |-> ws]
  ELSE LET word == Head(ws)
           rest == Tail(ws) IN
       IF word = <<>> THEN [value |-> Block(tokens), rest |-> ws]
       ELSE IF word = <<"{">>
            THEN LET r == parse_block_loop(<<>>, rest) IN
                 parse_block_loop(Append(tokens, r.value), r.rest)
       ELSE IF word = <<"}">> THEN [value |-> Block(tokens), rest |-> rest]
       ELSE parse_block_loop(Append(tokens, block_token(word)), rest)

\* the sequence s backwards
Reverse(s) == [i \in 1..Len(s) |-> s[Len(s) + 1 - i]]

\* parse_block putting every token in front of the ones before it
parse_block_reversed(inp) ==
  LET r == parse_block_loop(<<>>, inp) IN
  [value |-> Block(Reverse(r.value.items)), rest |-> r.rest]

\* parse_block without its last branch: a word that is no literal is dropped
parse_block_dropped(inp) ==
  LET r == parse_block_loop(<<>>, inp) IN
  [value |-> Block(SelectSeq(r.value.items, LAMBDA v : v.tag # "Op")), rest |-> r.rest]

\* parse_block_loop returning the words after the empty word it stops at
RECURSIVE parse_block_loop_skipping(_, _)
parse_block_loop_skipping(tokens, ws) ==
  IF ws = <<>> THEN [value |-> Block(tokens), rest |-> ws]
  ELSE LET word == Head(ws)
           rest == Tail(ws) IN
       IF word = <<>> THEN [value |-> Block(tokens), rest |-> rest]
       ELSE IF word = <<"{">>
            THEN LET r == parse_block_loop_skipping(<<>>, rest) IN
                 parse_block_loop_skipping(Append(tokens, r.value), r.rest)
       ELSE IF word = <<"}">> THEN [value |-> Block(tokens), rest |-> rest]
       ELSE parse_block_loop_skipping(Append(tokens, block_token(word)), rest)

\* parse_block taking the empty word for consumed
parse_block_skipping(inp) == parse_block_loop_skipping(<<>>, inp)

\* parse_block returning an empty Block when the words run out
parse_block_discarding(inp) ==
  LET r == parse_block_loop(<<>>, inp) IN
  IF r.rest = <<>> /\ (inp = <<>> \/ inp[Len(inp)] # <<"}">>)
  THEN [value |-> Block(<<>>), rest |-> r.rest]
  ELSE r

parse_block(inp) == parse_block_loop(<<>>, inp)

---------------------------------------------------------------------------
(* The inputs: the lines standard input can deliver, built from words *)

w0     == <<"0">>
w1     == <<"1">>
wm1    == <<"-", "1">>
w2     == <<"2">>
wm2    == <<"-", "2">>
w3     == <<"3">>
w4     == <<"4">>
w5     == <<"5">>
w7     == <<"7">>
w9     == <<"9">>
w100   == <<"1", "0", "0">>
wm100  == <<"-", "1", "0", "0">>
wMax   == <<"2", "1", "4", "7", "4", "8", "3", "6", "4", "7">>
wMin   == <<"-", "2", "1", "4", "7", "4", "8", "3", "6", "4", "8">>
wPlus  == <<"+">>
wMinus == <<"-">>
wStar  == <<"*">>
wSlash == <<"/">>
wIf    == <<"i", "f">>
wDef   == <<"d", "e", "f">>
wOpen  == <<"{">>
wClose == <<"}">>
wx     == <<"x">>
wSx    == <<"/", "x">>
wEmpty == <<>>

\* the words of ws joined by single spaces: the text whose split is ws
RECURSIVE Join(_)
Join(ws) ==
  IF Len(ws) = 0 THEN <<>>
  ELSE IF Len(ws) = 1 THEN ws[1]
  ELSE LET h == Len(ws) \div 2 IN
       Join(SubSeq(ws, 1, h)) \o <<" ">> \o Join(SubSeq(ws, h + 1, Len(ws)))

\* the concatenation of a sequence of sequences
RECURSIVE Concat(_)
Concat(ss) ==
  IF Len(ss) = 0 THEN <<>>
  ELSE IF Len(ss) = 1 THEN ss[1]
  ELSE LET h == Len(ss) \div 2 IN
       Concat(SubSeq(ss, 1, h)) \o Concat(SubSeq(ss, h + 1, Len(ss)))

\* the sequences over S of length at most n
SeqsUpTo(S, n) == UNION {[1..k -> S] : k \in 0..n}

\* short top-level lines
Vocab == {w7, wm2, wPlus, wSlash, wx, wSx, wDef, wOpen, wEmpty}

ShortLines == SeqsUpTo(Vocab, MaxWords)

\* lines `u v op` of two operands and an arithmetic operator
Operands == {w0, w7, wm2, wMax, wSx}

OperandLines == {<<u, v, o>> : u \in Operands, v \in Operands,
                               o \in {wPlus, wMinus, wStar, wSlash}}

\* lines `{ C } { T } { F } if`
CondVocab == {w1, w0, wPlus, wSlash}

Branches == {<<<<w100>>, <<wm100>>>>,
             <<<<>>, <<w7, wx>>>>, <<<<w5, wm2, wSlash>>, <<wSx, w9, wDef>>>>}

IfLine(c, t, f) ==
  <<wOpen>> \o c \o <<wClose, wOpen>> \o t \o <<wClose, wOpen>> \o f \o <<wClose, wIf>>

IfLines == {IfLine(c, b[1], b[2]) : c \in SeqsUpTo(CondVocab, MaxCondLen), b \in Branches}

\* lines made of phrases around `def`
LoopBlock == <<wOpen, wOpen, w1, wClose, wx, wx, wIf, wClose>>

Phrases == {<<wSx, w5, wDef>>, <<wSx, w7, wDef>>, <<wx>>,
            <<wSx>> \o LoopBlock \o <<wDef>>, <<wOpen, w1, wClose, wx, wx, wIf>>}

DefLines == {Concat(ps) : ps \in SeqsUpTo(Phrases, MaxPhrases)}

\* lines `a1 ... an if` of at most MaxWords operands, Numbers and groups
IfArgs == {<<w7>>, <<wOpen, w1, wClose>>, <<wOpen, wx, wClose>>}

IfArgLines == {Concat(as) \o <<wIf>> : as \in SeqsUpTo(IfArgs, MaxWords)}

\* lines `p { C } { 100 } { -100 } if` with values p under the three groups
LivePrefixes == SeqsUpTo({w7, w0, wSx}, 2)

LiveConds == {<<>>, <<wPlus>>, <<wMinus>>, <<w1, w0>>}

LiveLines == {p \o IfLine(c, <<w100>>, <<wm100>>) : p \in LivePrefixes, c \in LiveConds}

\* the lines of the tests of the source and of the examples of the specification
TestLines == {
  <<w1, w2, wPlus, wOpen, w3, w4, wClose>>,
  <<wOpen, w3, w4, wClose>>,
  IfLine(<<w1, wm1, wPlus>>, <<w100>>, <<wm100>>),
  IfLine(<<w1, w1, wPlus>>, <<w100>>, <<wm100>>),
  <<wOpen, wOpen, w1, wClose, wOpen, w2, wClose, wIf, wClose>>,
  IfLine(<<wMin, wm1, wSlash>>, <<w1>>, <<w2>>),
  IfLine(<<w7, wm2, wSlash>>, <<w1>>, <<w2>>),
  IfLine(<<w1, wm1, wPlus, w1, wSlash>>, <<w1>>, <<w2>>),
  <<w5, wSx, wDef, wx, w7, wSx, wDef, wx>>,
  <<wSx, w5, wDef, wx, wSx, w7, wDef, wx>>,
  <<wSx, wOpen, w1, wClose, wDef, wOpen, w1, wClose, wx, wx, wIf>> }

\* lines whose groups are left open by an empty word or by the end of the line
OpenLines == {
  <<wOpen, w1, wOpen, w2, wClose, w3>>,
  <<w7, wOpen, w1, wOpen, w2>>,
  <<wOpen, w1, wOpen, w2, wClose, wEmpty, w3, wClose>>,
  <<w7, wOpen, w1, wOpen, w2, wEmpty, wClose, wClose, w9>>,
  <<w7, wEmpty, wOpen, w1, wClose>> }

\* a line whose chosen branch holds a group
PushLines == {IfLine(<<w1>>, <<wOpen, w7, wClose, wSx>>, <<>>)}

\* lines on which an `if` runs inside a block that an `if` runs
NestedIfLines == {
  <<wOpen, w1, wClose, wOpen, w7, wClose, wOpen, w9, wClose>>
    \o IfLine(<<w1>>, <<wIf>>, <<>>),
  IfLine(<<w1>>, <<wIf>>, <<w9>>),
  IfLine(<<w0>>, <<wIf>>, IfLine(<<w1>>, <<w7>>, <<w9>>)) }

\* the lines of inputs of several lines
IsoLines == {<<wSx, w5, wDef, w9>>, <<wx>>, <<w7>>, <<wSx, w5, wDef, wx>>, <<>>}

Inputs ==
  {<<Join(l)>> : l \in ShortLines \cup OperandLines \cup IfLines \cup IfArgLines \cup LiveLines
                       \cup DefLines \cup TestLines \cup OpenLines \cup PushLines
                       \cup NestedIfLines}
    \cup {[i \in 1..Len(ls) |-> Join(ls[i])] : ls \in SeqsUpTo(IsoLines, MaxLines)}

---------------------------------------------------------------------------
(* The program *)

Init ==
  /\ lines \in Inputs
  /\ wrapping \in BOOLEAN
  /\ lineNo = 0
  /\ pc = "main"
  /\ input = <<>>
  /\ words = <<>>
  /\ stack = <<>>
  /\ vars = EmptyMap
  /\ ctrl = <<>>
  /\ err = "none"
  /\ out = <<>>

\* main, lines 52-53, and parse, lines 58-60: the next line of the input is
\* given to parse, which creates a Vm and splits the line
ReadLine ==
  /\ pc = "main"
  /\ lineNo < Len(lines)
  /\ lineNo' = lineNo + 1
  /\ pc' = "parse"
  /\ input' = split(lines[lineNo + 1])
  /\ words' = input'
  /\ stack' = Vm_new.stack
  /\ vars' = Vm_new.vars
  /\ ctrl' = <<>>
  /\ UNCHANGED <<lines, wrapping, err, out>>

\* main: the input is exhausted
Exit ==
  /\ pc = "main"
  /\ lineNo = Len(lines)
  /\ pc' = "exit"
  /\ UNCHANGED <<lines, wrapping, lineNo, input, words, stack, vars, ctrl, err, out>>

\* parse, lines 62-65 and 83-85: the words are exhausted or the word is empty;
\* the stack is printed and returned
ParseEnd ==
  /\ pc = "parse"
  /\ ctrl = <<>>
  /\ (IF words = <<>> THEN TRUE ELSE Head(words) = <<>>)
  /\ out' = Append(out, stack)
  /\ pc' = "main"
  /\ UNCHANGED <<lines, wrapping, lineNo, input, words, stack, vars, ctrl, err>>

\* parse, lines 66-69 and 80: a group is parsed and pushed
ParseGroup ==
  /\ pc = "parse"
  /\ ctrl = <<>>
  /\ words # <<>>
  /\ Head(words) = <<"{">>
  /\ LET r == parse_block(Tail(words)) IN
       /\ stack' = Append(stack, r.value)
       /\ words' = r.rest
  /\ UNCHANGED <<lines, wrapping, lineNo, pc, input, vars, ctrl, err, out>>

\* parse, lines 70-80: any other word is classified and evaluated
ParseWord ==
  /\ pc = "parse"
  /\ ctrl = <<>>
  /\ words # <<>>
  /\ Head(words) # <<>>
  /\ Head(words) # <<"{">>
  /\ LET r == eval(classify(Head(words)), stack, vars, wrapping) IN
       /\ stack' = r.stack
       /\ vars' = r.vars
       /\ IF r.err # "none"
          THEN pc' = "panic" /\ err' = r.err /\ UNCHANGED <<words, ctrl>>
          ELSE /\ words' = Tail(words)
               /\ ctrl' = r.frame
               /\ UNCHANGED <<pc, err>>
  /\ UNCHANGED <<lines, wrapping, lineNo, input, out>>

\* op_if, lines 161-163 and 168-174: the next token of the running block is
\* evaluated; an op_if it calls gets its own activation record, unless the
\* call stack of the host is exhausted
RunToken ==
  /\ pc = "parse"
  /\ ctrl # <<>>
  /\ ctrl[Len(ctrl)].code # <<>>
  /\ LET top == ctrl[Len(ctrl)]
         r   == eval(Head(top.code), stack, vars, wrapping) IN
       /\ stack' = r.stack
       /\ vars' = r.vars
       /\ IF r.err # "none"
          THEN pc' = "panic" /\ err' = r.err /\ UNCHANGED ctrl
          ELSE IF r.frame # <<>> /\ Len(ctrl) >= MaxDepth
          THEN pc' = "panic" /\ err' = "StackOverflow" /\ UNCHANGED ctrl
          ELSE /\ ctrl' = [ctrl EXCEPT ![Len(ctrl)].code = Tail(top.code)] \o r.frame
               /\ UNCHANGED <<pc, err>>
  /\ UNCHANGED <<lines, wrapping, lineNo, input, words, out>>

\* op_if, lines 165-167: the condition block has run; the truth value is popped
IfTest ==
  /\ pc = "parse"
  /\ ctrl # <<>>
  /\ ctrl[Len(ctrl)].phase = "cond"
  /\ ctrl[Len(ctrl)].code = <<>>
  /\ LET r == if_choose(stack, ctrl[Len(ctrl)]) IN
       /\ stack' = r.stack
       /\ IF r.err # "none"
          THEN pc' = "panic" /\ err' = r.err /\ UNCHANGED ctrl
          ELSE /\ ctrl' = Front(ctrl) \o r.frame
               /\ UNCHANGED <<pc, err>>
  /\ UNCHANGED <<lines, wrapping, lineNo, input, words, vars, out>>

\* op_if, line 176: the chosen branch has run; op_if returns to its caller
IfReturn ==
  /\ pc = "parse"
  /\ ctrl # <<>>
  /\ ctrl[Len(ctrl)].phase = "branch"
  /\ ctrl[Len(ctrl)].code = <<>>
  /\ ctrl' = Front(ctrl)
  /\ UNCHANGED <<lines, wrapping, lineNo, pc, input, words, stack, vars, err, out>>

Next ==
  \/ ReadLine
  \/ Exit
  \/ ParseEnd
  \/ ParseGroup
  \/ ParseWord
  \/ RunToken
  \/ IfTest
  \/ IfReturn

Spec == Init /\ [][Next]_vars_all

---------------------------------------------------------------------------
(* Vocabulary of the properties *)

\* the words of the line parse is working on, and those it has consumed
LineWords == input

Consumed == SubSeq(LineWords, 1, Len(LineWords) - Len(words))

\* parse has returned from the line numbered lineNo
Finished == pc = "main" /\ lineNo >= 1 /\ Len(out) = lineNo

\* the process has panicked
Panicked == pc = "panic"

\* an eval call is about to be made, and the token it is made with
EvalEnabled ==
  /\ pc = "parse"
  /\ IF ctrl = <<>>
     THEN words # <<>> /\ Head(words) # <<>> /\ Head(words) # <<"{">>
     ELSE ctrl[Len(ctrl)].code # <<>>

NextCode ==
  IF ctrl = <<>> THEN classify(Head(words)) ELSE Head(ctrl[Len(ctrl)].code)

Evaluating(code) == EvalEnabled /\ NextCode = code

ArithWords == {wPlus, wMinus, wStar, wSlash}

IsNumWord(w) == ParseI32(w).ok

NumOf(w) == ParseI32(w).val

\* s ends with the sequence t
EndsWith(s, t) ==
  Len(s) >= Len(t) /\ SubSeq(s, Len(s) - Len(t) + 1, Len(s)) = t

\* the mathematical value of a op b, when it is an i32
Abs(n) == IF n < 0 THEN -n ELSE n

Quotient(a, b) ==
  IF (a < 0) = (b < 0) THEN Abs(a) \div Abs(b) ELSE -(Abs(a) \div Abs(b))

Exact(opw, a, b) ==
  CASE opw = wPlus  -> IF AddOverflows(a, b) THEN [ok |-> FALSE, val |-> 0]
                       ELSE [ok |-> TRUE, val |-> a + b]
    [] opw = wMinus -> IF SubOverflows(a, b) THEN [ok |-> FALSE, val |-> 0]
                       ELSE [ok |-> TRUE, val |-> a - b]
    [] opw = wStar  -> IF MulOverflows(a, b) THEN [ok |-> FALSE, val |-> 0]
                       ELSE [ok |-> TRUE, val |-> a * b]
    [] opw = wSlash -> IF b = 0 \/ a = I32Min \/ b = I32Min
                       THEN [ok |-> FALSE, val |-> 0]
                       ELSE [ok |-> TRUE, val |-> Quotient(a, b)]

---------------------------------------------------------------------------
(* C1 *)

\* the line is `a b op` with Number literals a and b (b # 0 for `/`)
IsArithLine(ws) ==
  /\ Len(ws) = 3
  /\ IsNumWord(ws[1])
  /\ IsNumWord(ws[2])
  /\ ws[3] \in ArithWords
  /\ (ws[3] = wSlash => NumOf(ws[2]) # 0)

\* C1: a top-level line `a b +`, `a b -`, `a b *` or `a b /` of Number
\* literals (b # 0 for division) whose result a op b is an i32 ends normally
\* with the stack holding exactly the one value Number(a op b), a the left
\* operand, division truncating toward zero.
C1_ArithmeticLine ==
  (lineNo = 1 /\ (Finished \/ Panicked) /\ IsArithLine(LineWords)) =>
    LET e == Exact(LineWords[3], NumOf(LineWords[1]), NumOf(LineWords[2])) IN
      e.ok => (Finished /\ out[1] = <<Num(e.val)>>)

---------------------------------------------------------------------------
(* C6 *)

\* C6: a line `a 0 /` with a Number literal a ends in a fatal error, never
\* normally with a final stack.
C6_DivisionByZeroLine ==
  (lineNo = 1 /\ Len(LineWords) = 3 /\ IsNumWord(LineWords[1])
     /\ LineWords[2] = w0 /\ LineWords[3] = wSlash)
    => ~Finished

---------------------------------------------------------------------------
(* C2 *)

\* the position of the first word w of ws at or after position i, 0 if none
IndexFrom(ws, w, i) ==
  LET S == {j \in i..Len(ws) : ws[j] = w} IN
  IF S = {} THEN 0 ELSE CHOOSE j \in S : \A k \in S : j <= k

\* the words of a line `{ C } { T } { F } if` whose three groups hold no
\* brace and no empty word: its three bodies
IfShape(ws) ==
  LET c1 == IndexFrom(ws, wClose, 2)
      c2 == IndexFrom(ws, wClose, c1 + 2)
      c3 == IndexFrom(ws, wClose, c2 + 2)
      ok == /\ Len(ws) >= 7
            /\ ws[1] = wOpen
            /\ c1 > 0 /\ c1 + 1 <= Len(ws) /\ ws[c1 + 1] = wOpen
            /\ c2 > 0 /\ c2 + 1 <= Len(ws) /\ ws[c2 + 1] = wOpen
            /\ c3 > 0 /\ c3 + 1 = Len(ws) /\ ws[c3 + 1] = wIf
            /\ \A i \in 1..Len(ws) :
                 /\ ws[i] # wEmpty
                 /\ (ws[i] = wOpen => i \in {1, c1 + 1, c2 + 1})
  IN IF ok
     THEN [ok |-> TRUE, cond |-> SubSeq(ws, 2, c1 - 1),
           t |-> SubSeq(ws, c1 + 2, c2 - 1), f |-> SubSeq(ws, c2 + 2, c3 - 1)]
     ELSE [ok |-> FALSE, cond |-> <<>>, t |-> <<>>, f |-> <<>>]

\* the Number a condition block `a` or `a b op` leaves as the only value of
\* an empty stack, when it leaves one
CondValue(c) ==
  IF Len(c) = 1 /\ IsNumWord(c[1]) THEN [ok |-> TRUE, val |-> NumOf(c[1])]
  ELSE IF Len(c) = 3 /\ IsNumWord(c[1]) /\ IsNumWord(c[2]) /\ c[3] \in ArithWords
       THEN Exact(c[3], NumOf(c[1]), NumOf(c[2]))
  ELSE [ok |-> FALSE, val |-> 0]

\* what evaluating the tokens of a branch body in order does to an empty
\* stack and an empty environment, written out for the bodies of the inputs
BranchEffect(b) ==
  CASE b = <<w100>>               -> [known |-> TRUE, err |-> "none", stack |-> <<Num(100)>>]
    [] b = <<wm100>>              -> [known |-> TRUE, err |-> "none", stack |-> <<Num(-100)>>]
    [] b = <<w1>>                 -> [known |-> TRUE, err |-> "none", stack |-> <<Num(1)>>]
    [] b = <<w2>>                 -> [known |-> TRUE, err |-> "none", stack |-> <<Num(2)>>]
    [] b = <<>>                   -> [known |-> TRUE, err |-> "none", stack |-> <<>>]
    [] b = <<w5, wm2, wSlash>>    -> [known |-> TRUE, err |-> "none", stack |-> <<Num(-2)>>]
    [] b = <<w7, wx>>             -> [known |-> TRUE, err |-> "UndefinedOperation",
                                      stack |-> <<Num(7)>>]
    [] b = <<wSx, w9, wDef>>      -> [known |-> TRUE, err |-> "UndefinedOperation",
                                      stack |-> <<>>]
    [] OTHER                      -> [known |-> FALSE, err |-> "none", stack |-> <<>>]

\* C2: on a line `{ C } { T } { F } if` whose condition leaves the Number n,
\* exactly the tokens of T are evaluated in order when n # 0 and exactly those
\* of F otherwise; the branch not taken changes neither the stack nor the
\* environment.  `{ 1 1 + } { 100 } { -100 } if` ends with [Number(100)] and
\* `{ 1 -1 + } { 100 } { -100 } if` with [Number(-100)].
C2_IfBranch ==
  (lineNo = 1 /\ (Finished \/ Panicked)) =>
    LET sh == IfShape(LineWords)
        n  == CondValue(sh.cond)
        e  == BranchEffect(IF n.val # 0 THEN sh.t ELSE sh.f)
    IN (sh.ok /\ n.ok /\ e.known) =>
         /\ vars = EmptyMap
         /\ stack = e.stack
         /\ IF e.err = "none"
            THEN Finished /\ out = <<e.stack>>
            ELSE Panicked /\ err = e.err

C2_Witness ==
  /\ Finished
  /\ lines = <<Join(IfLine(<<w1, wm1, wPlus>>, <<w100>>, <<wm100>>))>>
  /\ out = <<<<Num(-100)>>>>

---------------------------------------------------------------------------
(* C3 *)

\* the number of groups open after the words cs
OpenAfter(cs) ==
  Cardinality({i \in 1..Len(cs) : cs[i] = wOpen})
    - Cardinality({i \in 1..Len(cs) : cs[i] = wClose})

\* the position of the last word w of ws, 0 if none
LastIndex(ws, w) ==
  LET S == {j \in 1..Len(ws) : ws[j] = w} IN
  IF S = {} THEN 0 ELSE CHOOSE j \in S : \A k \in S : j >= k

\* the words consumed end with a closed top-level group without inner groups
FlatGroupRead ==
  /\ pc = "parse"
  /\ ctrl = <<>>
  /\ Consumed # <<>>
  /\ Consumed[Len(Consumed)] = wClose
  /\ LET o == LastIndex(Consumed, wOpen) IN
       /\ o > 0
       /\ OpenAfter(SubSeq(Consumed, 1, o - 1)) = 0
       /\ \A i \in (o + 1)..(Len(Consumed) - 1) : Consumed[i] # wClose

FlatGroupBody ==
  SubSeq(Consumed, LastIndex(Consumed, wOpen) + 1, Len(Consumed) - 1)

\* a top-level `{` is the next word
GroupNext == pc = "parse" /\ ctrl = <<>> /\ words # <<>> /\ Head(words) = wOpen

C3_GroupState ==
  /\ FlatGroupRead =>
       /\ stack # <<>>
       /\ stack[Len(stack)] =
            Block([i \in 1..Len(FlatGroupBody) |-> block_token(FlatGroupBody[i])])
  /\ (Finished /\ lines = <<Join(<<w1, w2, wPlus, wOpen, w3, w4, wClose>>)>>) =>
       out = <<<<Num(3), Block(<<Num(3), Num(4)>>)>>>>
  /\ (Finished /\ lines = <<Join(<<wOpen, w3, w4, wClose>>)>>) =>
       out = <<<<Block(<<Num(3), Num(4)>>)>>>>

C3_GroupStep ==
  GroupNext =>
    /\ pc' = "parse"
    /\ ctrl' = <<>>
    /\ vars' = vars
    /\ out' = out
    /\ Len(stack') = Len(stack) + 1
    /\ SubSeq(stack', 1, Len(stack)) = stack
    /\ stack'[Len(stack')].tag = "Block"
    /\ Len(words') < Len(words)

\* C3: a top-level `{ ... }` group is not executed when read: reading it
\* pushes one Block, the parsed tokens of the group in source order, on the
\* stack the words before it have left, and changes nothing else; the final
\* stack is returned bottom to top, so `1 2 + { 3 4 }` ends with
\* [Number(3), Block([Number(3), Number(4)])] and `{ 3 4 }` with
\* [Block([Number(3), Number(4)])].
C3_GroupIsData == [](C3_GroupState) /\ [][C3_GroupStep]_vars_all

C3_Witness ==
  /\ Finished
  /\ lines = <<Join(<<w1, w2, wPlus, wOpen, w3, w4, wClose>>)>>
  /\ out = <<<<Num(3), Block(<<Num(3), Num(4)>>)>>>>

---------------------------------------------------------------------------
(* C4 *)

\* the words consumed are all top-level words or closed groups
AtTopLevel == pc \in {"parse", "panic"} /\ ctrl = <<>> /\ OpenAfter(Consumed) = 0

NumWord(n) == IF n = 5 THEN w5 ELSE w7

\* C4 as stated: once `5 /x def` has been processed, the word `x` pushes
\* Number(5), and once a later `7 /x def` has been processed, Number(7).
C4_ValueThenName ==
  \A n \in {5, 7} :
    /\ (AtTopLevel /\ EndsWith(Consumed, <<NumWord(n), wSx>>)
          /\ words # <<>> /\ Head(words) = wDef) => ~Panicked
    /\ (AtTopLevel /\ EndsWith(Consumed, <<NumWord(n), wSx, wDef, wx>>)) =>
          (~Panicked /\ stack # <<>> /\ stack[Len(stack)] = Num(n))

\* C4 amended: once `/x 5 def` has been processed, the word `x` pushes
\* Number(5), and once a later `/x 7 def` has been processed, Number(7): the
\* later def overwrites the binding, and a def changes how the later words of
\* its line resolve.
C4_NameThenValue ==
  \A n \in {5, 7} :
    /\ (AtTopLevel /\ EndsWith(Consumed, <<wSx, NumWord(n)>>)
          /\ words # <<>> /\ Head(words) = wDef) => ~Panicked
    /\ (AtTopLevel /\ EndsWith(Consumed, <<wSx, NumWord(n), wDef, wx>>)) =>
          (~Panicked /\ stack # <<>> /\ stack[Len(stack)] = Num(n))

C4_Witness ==
  /\ Finished
  /\ LineWords = <<wSx, w5, wDef, wx, wSx, w7, wDef, wx>>
  /\ out = <<<<Num(5), Num(7)>>>>

---------------------------------------------------------------------------
(* C5 *)

\* nothing is pushed: the stack after the step is a prefix of the one before
NoPush == Len(stack') <= Len(stack) /\ stack' = SubSeq(stack, 1, Len(stack'))

C5_DefStep ==
  Evaluating(Op(wDef)) =>
    IF Len(stack) >= 2 /\ stack[Len(stack) - 1].tag = "Sym"
    THEN LET key == stack[Len(stack) - 1].text IN
         /\ pc' = "parse"
         /\ stack' = SubSeq(stack, 1, Len(stack) - 2)
         /\ DOMAIN vars' = (DOMAIN vars) \cup {key}
         /\ vars'[key] = stack[Len(stack)]
         /\ \A k \in (DOMAIN vars) \ {key} : vars'[k] = vars[k]
    ELSE /\ pc' = "panic"
         /\ err' = (IF Len(stack) >= 2 THEN "TypeMismatch" ELSE "StackUnderflow")
         /\ vars' = vars
         /\ NoPush

C5_DefKey ==
  (Finished /\ lineNo = 1 /\ LineWords = <<wSx, w5, wDef>>) =>
    (out = <<<<>>>> /\ DOMAIN vars = {wx} /\ vars[wx] = Num(5))

\* C5: def pops two values, the top of the stack as the value and the next
\* one, which must be a Symbol, as the name; the payload of the Symbol, its
\* word without the `/`, becomes the key of the binding; a value that is no
\* Symbol in the name slot is a fatal type mismatch; def pushes nothing, so it
\* leaves the stack without its two top elements.
C5_DefPopsValueThenName == [](C5_DefKey) /\ [][C5_DefStep]_vars_all

C5_Witness ==
  /\ pc = "parse"
  /\ Consumed = <<wSx, w5, wDef>>
  /\ stack = <<>>
  /\ DOMAIN vars = {wx}
  /\ vars[wx] = Num(5)

---------------------------------------------------------------------------
(* C7 *)

Builtins == {wPlus, wMinus, wStar, wSlash, wIf, wDef}

C7_UndefinedStep ==
  (EvalEnabled /\ NextCode.tag = "Op" /\ NextCode.text \notin Builtins
     /\ NextCode.text \notin DOMAIN vars) =>
    /\ pc' = "panic"
    /\ err' = "UndefinedOperation"
    /\ stack' = stack
    /\ UNCHANGED <<vars, input, words, ctrl, out, lineNo>>

\* C7: evaluating an Operator whose name is no built-in and no key of the
\* environment is a fatal undefined-operation error: nothing is pushed, and
\* no step follows a fatal error, so no later word is processed.
C7_UndefinedIsFatal == [][C7_UndefinedStep /\ ~Panicked]_vars_all

C7_Witness ==
  /\ Panicked
  /\ err = "UndefinedOperation"
  /\ Len(words) >= 2
  /\ Head(words) = wx

---------------------------------------------------------------------------
(* C8 *)

ArithNext == EvalEnabled /\ NextCode.tag = "Op" /\ NextCode.text \in ArithWords

Fatal(kind) == pc' = "panic" /\ err' = kind /\ NoPush

\* C8 as stated: an arithmetic operator on a stack of 0 or 1 elements is a
\* fatal stack underflow, and on two values one of which is no Number a fatal
\* type mismatch; no result is pushed.
C8_UnderflowBeforeType ==
  [][ArithNext =>
       /\ (Len(stack) <= 1 => Fatal("StackUnderflow"))
       /\ (Len(stack) >= 2 /\ (stack[Len(stack)].tag # "Num"
                                \/ stack[Len(stack) - 1].tag # "Num")
             => Fatal("TypeMismatch"))]_vars_all

\* C8 amended: an arithmetic operator on an empty stack, or on a stack of one
\* element that is a Number, is a fatal stack underflow; when the top of the
\* stack is no Number (also on a stack of one element), or the top is a Number
\* and the value under it is not, it is a fatal type mismatch; no result is
\* pushed.
C8_PopThenType ==
  [][ArithNext =>
       /\ (Len(stack) = 0 => Fatal("StackUnderflow"))
       /\ (Len(stack) >= 1 /\ stack[Len(stack)].tag # "Num" => Fatal("TypeMismatch"))
       /\ (Len(stack) = 1 /\ stack[Len(stack)].tag = "Num" => Fatal("StackUnderflow"))
       /\ (Len(stack) >= 2 /\ stack[Len(stack)].tag = "Num"
             /\ stack[Len(stack) - 1].tag # "Num" => Fatal("TypeMismatch"))]_vars_all

C8_Witness ==
  /\ Panicked
  /\ err = "TypeMismatch"
  /\ Consumed = <<wSx>>
  /\ words = <<wPlus>>
  /\ stack = <<>>

---------------------------------------------------------------------------
(* C9 *)

NestedLine == <<wOpen, wOpen, w1, wClose, wOpen, w2, wClose, wIf, wClose>>

NestedBlock == Block(<<Block(<<Num(1)>>), Block(<<Num(2)>>), Op(wIf)>>)

\* C9 as stated: the line `{ { 1 } { 2 } if }` leaves exactly one Block, and
\* that Block has a single element.
C9_SingleElement ==
  (Finished /\ lineNo = 1 /\ LineWords = NestedLine) =>
    /\ Len(out[1]) = 1
    /\ out[1][1].tag = "Block"
    /\ Len(out[1][1].items) = 1

\* C9 amended: the line `{ { 1 } { 2 } if }` leaves exactly one Block on the
\* stack, whose three elements are Block([Number(1)]), Block([Number(2)]) and
\* Operator("if") in this order; nothing inside it is evaluated while the line
\* is processed: no op_if runs, nothing is bound and nothing fails.
C9_NestedBlock ==
  (lineNo = 1 /\ LineWords = NestedLine) =>
    /\ ctrl = <<>>
    /\ ~Panicked
    /\ vars = EmptyMap
    /\ stack \in {<<>>, <<NestedBlock>>}
    /\ (words = <<>> => stack = <<NestedBlock>>)
    /\ (Finished => out = <<<<NestedBlock>>>>)

C9_Witness ==
  /\ Finished
  /\ LineWords = NestedLine
  /\ out = <<<<NestedBlock>>>>

---------------------------------------------------------------------------
(* C10 *)

\* C10: every line is processed on a fresh machine: parse starts a line with
\* an empty stack and an empty environment, two equal lines of one input end
\* with equal stacks whatever the lines between them did, and a name bound by
\* an earlier line is unbound in a later one.
C10_FreshMachine ==
  /\ (pc = "parse" /\ words = LineWords /\ ctrl = <<>>) =>
        (stack = <<>> /\ vars = EmptyMap)
  /\ \A i, j \in 1..Len(out) : lines[i] = lines[j] => out[i] = out[j]
  /\ (lineNo >= 2 /\ lines[lineNo] = Join(<<wx>>)) => Len(out) < lineNo

C10_Witness ==
  /\ Len(out) = 3
  /\ lines[1] = Join(<<wSx, w5, wDef, w9>>)
  /\ lines[2] = Join(<<w7>>)
  /\ lines[3] = lines[1]
  /\ out[3] = <<Num(9)>>

---------------------------------------------------------------------------
(* C11 *)

\* C11: a fatal error aborts the evaluation of its line at once: no final
\* stack is yielded for the line; and it aborts that line only: while input
\* lines follow the failing line, the driver goes on to process them.
C11_AbortsLineOnly ==
  Panicked =>
    /\ Len(out) = lineNo - 1
    /\ (lineNo < Len(lines) => ENABLED Next)

---------------------------------------------------------------------------
(* C12 *)

\* the integer literals among the words of the inputs, and their values
Literals ==
  {<<w0, 0>>, <<w1, 1>>, <<wm1, -1>>, <<w2, 2>>, <<wm2, -2>>, <<w3, 3>>, <<w4, 4>>,
   <<w5, 5>>, <<w7, 7>>, <<w9, 9>>, <<w100, 100>>, <<wm100, -100>>,
   <<wMax, I32Max>>, <<wMin, I32Min>>}

LiteralWords == {l[1] : l \in Literals}

LiteralValue(w) == (CHOOSE l \in Literals : l[1] = w)[2]

\* the next step of parse takes a top-level word other than `{`
TopWordNext ==
  pc = "parse" /\ ctrl = <<>> /\ words # <<>> /\ Head(words) \notin {wEmpty, wOpen}

\* the step pushes v as data and does nothing else
PushesData(v) ==
  /\ stack' = Append(stack, v)
  /\ words' = Tail(words)
  /\ UNCHANGED <<pc, vars, ctrl, err, out, lineNo>>

\* the step acts on the name w: a built-in takes its operands from the stack
\* or fails, any other name is looked up in the environment
DispatchedAsAction(w) ==
  IF w \in Builtins THEN pc' = "panic" \/ Len(stack') < Len(stack)
  ELSE IF w \in DOMAIN vars THEN PushesData(vars[w])
  ELSE pc' = "panic" /\ err' = "UndefinedOperation" /\ stack' = stack

C12_ClassifyStep ==
  TopWordNext =>
    LET w == Head(words) IN
    IF w \in LiteralWords THEN PushesData(Num(LiteralValue(w)))
    ELSE IF w[1] = "/" THEN PushesData(Sym(Tail(w)))
    ELSE DispatchedAsAction(w)

\* C12: a top-level word other than `{` is classified by three rules in this
\* order: an integer literal is a Number; any other word that starts with `/`,
\* the one-character word `/` included, is a Symbol whose payload is the word
\* without its first character; any other word is an Operator.  Only an
\* Operator is dispatched as an action; a Number or a Symbol is pushed as data.
C12_Classification == [][C12_ClassifyStep]_vars_all

C12_Witness ==
  /\ Finished
  /\ LineWords = <<w7, wm2, wSlash>>
  /\ out = <<<<Num(7), Num(-2), Sym(<<>>)>>>>

---------------------------------------------------------------------------
(* C13 *)

\* no Symbol occurs in v at any depth
RECURSIVE SymFree(_)
SymFree(v) ==
  /\ v.tag # "Sym"
  /\ v.tag = "Block" => \A i \in 1..Len(v.items) : SymFree(v.items[i])

AllSymFree(vs) == \A i \in 1..Len(vs) : SymFree(vs[i])

\* a value that is a Block holds no Symbol
BlockSymFree(v) == v.tag = "Block" => AllSymFree(v.items)

\* the token a word of a group is stored as, the literals written out
StoredToken(w) == IF w \in LiteralWords THEN Num(LiteralValue(w)) ELSE Op(w)

C13_BlockState ==
  /\ \A i \in 1..Len(stack) : BlockSymFree(stack[i])
  /\ \A k \in DOMAIN vars : BlockSymFree(vars[k])
  /\ \A i \in 1..Len(out) : \A j \in 1..Len(out[i]) : BlockSymFree(out[i][j])
  /\ \A i \in 1..Len(ctrl) :
       AllSymFree(ctrl[i].code) /\ AllSymFree(ctrl[i].true_branch)
         /\ AllSymFree(ctrl[i].false_branch)
  /\ FlatGroupRead =>
       /\ stack # <<>>
       /\ stack[Len(stack)] =
            Block([i \in 1..Len(FlatGroupBody) |-> StoredToken(FlatGroupBody[i])])

\* a token of a running block whose text starts with `/` and is longer
C13_PrefixedStep ==
  (EvalEnabled /\ ctrl # <<>> /\ NextCode.tag = "Op" /\ Len(NextCode.text) > 1
     /\ NextCode.text[1] = "/") =>
    IF NextCode.text \in DOMAIN vars
    THEN stack' = Append(stack, vars[NextCode.text]) /\ pc' = "parse"
    ELSE pc' = "panic" /\ err' = "UndefinedOperation" /\ stack' = stack

\* C13: inside a `{ }` group the `/` prefix is not special: a word that is
\* neither `{`, `}`, empty nor an integer literal is stored as the Operator of
\* the whole word, its leading `/` included, so no Block holds a Symbol at any
\* depth, and a `/name` token run from a Block is looked up under the name
\* `/name`.
C13_NoSymbolInBlocks == [](C13_BlockState) /\ [][C13_PrefixedStep]_vars_all

C13_Witness ==
  /\ Panicked
  /\ err = "UndefinedOperation"
  /\ ctrl # <<>>
  /\ ctrl[Len(ctrl)].phase = "branch"
  /\ ctrl[Len(ctrl)].code = <<Op(wSx), Num(9), Op(wDef)>>
  /\ stack = <<>>

---------------------------------------------------------------------------
(* C14 *)

\* eval is about to be called with the Operator `if`
IfNext == Evaluating(Op(wIf))

\* the number of Blocks on top of the stack, counted up to three
TopBlocks ==
  LET n == Len(stack)
      b(i) == i <= n /\ stack[n + 1 - i].tag = "Block"
  IN IF ~b(1) THEN 0 ELSE IF ~b(2) THEN 1 ELSE IF ~b(3) THEN 2 ELSE 3

\* the step fails before any token of a block is evaluated
FatalBeforeBlocks(kind) == Fatal(kind) /\ UNCHANGED <<vars, ctrl, words, out>>

\* the step starts the condition block of the three Blocks on top of the stack
StartsCondition ==
  LET n == Len(stack) IN
  \/ /\ ctrl # <<>>
     /\ Len(ctrl) >= MaxDepth
     /\ pc' = "panic"
     /\ err' = "StackOverflow"
  \/ /\ pc' = "parse"
     /\ stack' = SubSeq(stack, 1, n - 3)
     /\ vars' = vars
     /\ Len(ctrl') = Len(ctrl) + 1
     /\ ctrl'[Len(ctrl')] =
          CondFrame(stack[n - 2].items, stack[n - 1].items, stack[n].items)

\* C14 as stated: `if` on a stack of fewer than three values is a fatal stack
\* underflow, and on three values one of which is no Block a fatal type error.
C14_UnderflowBeforeType ==
  [][IfNext =>
       /\ (Len(stack) < 3 => FatalBeforeBlocks("StackUnderflow"))
       /\ (Len(stack) >= 3 /\ TopBlocks < 3 => FatalBeforeBlocks("TypeMismatch"))]_vars_all

\* C14 amended: `if` pops three values, the false branch (top), the true
\* branch, the condition, testing each as it is popped: the first popped value
\* that is no Block is a fatal type error, also on a stack of fewer than three
\* values, and the stack running out before that is a fatal stack underflow;
\* in both cases no token of a branch or of the condition is evaluated.
C14_PopsThreeBlocks ==
  [][IfNext =>
       IF TopBlocks = 3 THEN StartsCondition
       ELSE IF Len(stack) > TopBlocks THEN FatalBeforeBlocks("TypeMismatch")
       ELSE FatalBeforeBlocks("StackUnderflow")]_vars_all

C14_Witness ==
  /\ Panicked
  /\ err = "TypeMismatch"
  /\ Consumed = <<w7>>
  /\ words = <<wIf>>
  /\ stack = <<>>

---------------------------------------------------------------------------
(* C15 *)

\* the line `p { C } { 100 } { -100 } if`
Live(p, c) == p \o IfLine(c, <<w100>>, <<wm100>>)

\* what such lines end with, written out
LiveCases ==
  { [line |-> Live(<<w7, w0>>, <<wPlus>>),  err |-> "none", stack |-> <<Num(100)>>],
    [line |-> Live(<<w7, w7>>, <<wMinus>>), err |-> "none", stack |-> <<Num(-100)>>],
    [line |-> Live(<<w7, w0>>, <<>>),       err |-> "none", stack |-> <<Num(7), Num(-100)>>],
    [line |-> Live(<<w0, w7>>, <<>>),       err |-> "none", stack |-> <<Num(0), Num(100)>>],
    [line |-> Live(<<w7>>, <<w1, w0>>),     err |-> "none",
       stack |-> <<Num(7), Num(1), Num(-100)>>],
    [line |-> Live(<<w7>>, <<wPlus>>),      err |-> "StackUnderflow", stack |-> <<>>],
    [line |-> Live(<<wSx>>, <<>>),          err |-> "TypeMismatch", stack |-> <<>>],
    [line |-> Live(<<>>, <<>>),             err |-> "StackUnderflow", stack |-> <<>>] }

C15_Cases ==
  \A c \in LiveCases :
    (lineNo = 1 /\ LineWords = c.line /\ (Finished \/ Panicked)) =>
      IF c.err = "none" THEN Finished /\ out = <<c.stack>>
      ELSE Panicked /\ err = c.err /\ stack = c.stack

\* the condition block of the innermost op_if has run
CondDone ==
  /\ pc = "parse"
  /\ ctrl # <<>>
  /\ ctrl[Len(ctrl)].phase = "cond"
  /\ ctrl[Len(ctrl)].code = <<>>

\* the chosen branch of the innermost op_if has run
BranchDone ==
  /\ pc = "parse"
  /\ ctrl # <<>>
  /\ ctrl[Len(ctrl)].phase = "branch"
  /\ ctrl[Len(ctrl)].code = <<>>

C15_TruthStep ==
  CondDone =>
    IF stack = <<>> THEN Fatal("StackUnderflow")
    ELSE IF stack[Len(stack)].tag # "Num" THEN Fatal("TypeMismatch")
    ELSE /\ stack' = Front(stack)
         /\ vars' = vars
         /\ pc' = "parse"
         /\ ctrl' = Append(Front(ctrl),
                           BranchFrame(IF stack[Len(stack)].num # 0
                                       THEN ctrl[Len(ctrl)].true_branch
                                       ELSE ctrl[Len(ctrl)].false_branch))

C15_ReturnStep ==
  BranchDone => (stack' = stack /\ vars' = vars /\ pc' = "parse" /\ ctrl' = Front(ctrl))

\* C15: `if` runs its condition block on the live stack: the tokens of the
\* condition read and remove values under the three blocks, then exactly one
\* Number is popped as the truth value (an empty stack or a value that is no
\* Number is fatal there), every other change of the condition stays, and `if`
\* pushes nothing: the stack after `if` is the one the condition left, less
\* the truth value, as changed by the tokens of the chosen branch.
C15_LiveStack == [](C15_Cases) /\ [][C15_TruthStep /\ C15_ReturnStep]_vars_all

C15_Witness ==
  /\ Finished
  /\ LineWords = Live(<<w7, w0>>, <<>>)
  /\ out = <<<<Num(7), Num(-100)>>>>

---------------------------------------------------------------------------
(* C16 *)

\* the position of the first empty word of the line, 0 if it has none
FirstEmpty == IndexFrom(LineWords, wEmpty, 1)

\* the tokens of the words ws of a group none of whose inner groups is closed:
\* every `{` of ws opens a Block that holds all that follows it
RECURSIVE Nest(_)
Nest(ws) ==
  LET o == IndexFrom(ws, wOpen, 1) IN
  IF o = 0 THEN [i \in 1..Len(ws) |-> StoredToken(ws[i])]
  ELSE [i \in 1..(o - 1) |-> StoredToken(ws[i])]
         \o <<Block(Nest(SubSeq(ws, o + 1, Len(ws))))>>

\* the next word is the empty word, at top level
EmptyNext == pc = "parse" /\ ctrl = <<>> /\ words # <<>> /\ Head(words) = wEmpty

\* the words after a top-level `{` up to the first empty word after it
BodyToEmpty ==
  LET rest == Tail(words) IN SubSeq(rest, 1, IndexFrom(rest, wEmpty, 1) - 1)

\* a top-level `{` is next, an empty word follows it, and no `}` lies between
OpenToEmpty ==
  /\ GroupNext
  /\ IndexFrom(Tail(words), wEmpty, 1) > 0
  /\ \A i \in 1..Len(BodyToEmpty) : BodyToEmpty[i] # wClose

C16_Cases ==
  /\ (Finished \/ Panicked) /\ LineWords = <<wOpen, w1, wOpen, w2, wClose, wEmpty, w3, wClose>>
       => out = <<<<Block(<<Num(1), Block(<<Num(2)>>)>>)>>>>
  /\ (Finished \/ Panicked)
         /\ LineWords = <<w7, wOpen, w1, wOpen, w2, wEmpty, wClose, wClose, w9>>
       => out = <<<<Num(7), Block(<<Num(1), Block(<<Num(2)>>)>>)>>>>
  /\ (Finished \/ Panicked) /\ LineWords = <<w7, wEmpty, wOpen, w1, wClose>>
       => out = <<<<Num(7)>>>>
  /\ (Finished \/ Panicked) /\ LineWords = <<wEmpty, w7>> => out = <<<<>>>>

C16_State ==
  /\ C16_Cases
  /\ (lineNo >= 1 /\ FirstEmpty > 0) => Len(Consumed) < FirstEmpty

C16_Step ==
  /\ EmptyNext =>
       /\ pc' = "main"
       /\ out' = Append(out, stack)
       /\ UNCHANGED <<stack, vars, err, words, ctrl>>
  /\ OpenToEmpty =>
       /\ stack' = Append(stack, Block(Nest(BodyToEmpty)))
       /\ words' # <<>>
       /\ Head(words') = wEmpty
       /\ Len(words') = Len(words) - Len(BodyToEmpty) - 1
       /\ UNCHANGED <<pc, vars, err, ctrl, out>>

\* C16: the first empty word of a line ends the processing of the line
\* without an error: the words before it have been processed, no word from it
\* on is consumed, and the stack is returned as it is; inside an open group,
\* at any depth, the Blocks accumulated so far are closed and pushed as they
\* are, and the line ends at the empty word all the same.
C16_EmptyWordEndsLine == [](C16_State) /\ [][C16_Step]_vars_all

C16_Witness ==
  /\ Finished
  /\ LineWords = <<w7, wOpen, w1, wOpen, w2, wEmpty, wClose, wClose, w9>>
  /\ out = <<<<Num(7), Block(<<Num(1), Block(<<Num(2)>>)>>)>>>>

---------------------------------------------------------------------------
(* C17 *)

\* a top-level `{` is next and neither a `}` nor an empty word follows it
OpenToEnd ==
  /\ GroupNext
  /\ \A i \in 1..Len(Tail(words)) : Tail(words)[i] \notin {wClose, wEmpty}

\* the words of the line are exhausted
WordsExhausted == pc = "parse" /\ ctrl = <<>> /\ words = <<>>

C17_Cases ==
  /\ (Finished \/ Panicked) /\ LineWords = <<wOpen, w1, wOpen, w2, wClose, w3>>
       => out = <<<<Block(<<Num(1), Block(<<Num(2)>>), Num(3)>>)>>>>
  /\ (Finished \/ Panicked) /\ LineWords = <<w7, wOpen, w1, wOpen, w2>>
       => out = <<<<Num(7), Block(<<Num(1), Block(<<Num(2)>>)>>)>>>>
  /\ (Finished \/ Panicked) /\ LineWords = <<wOpen>> => out = <<<<Block(<<>>)>>>>

C17_Step ==
  /\ OpenToEnd =>
       /\ stack' = Append(stack, Block(Nest(Tail(words))))
       /\ words' = <<>>
       /\ UNCHANGED <<pc, vars, err, ctrl, out>>
  /\ WordsExhausted =>
       /\ pc' = "main"
       /\ out' = Append(out, stack)
       /\ UNCHANGED <<stack, vars, err>>

\* C17: a `{` whose matching `}` is missing is not an error: when the words
\* run out, every group still open yields the tokens accumulated so far as a
\* Block, the inner ones inside the outer ones, the outermost is pushed, and
\* the line ends normally with it on top of the stack.
C17_UnterminatedGroup == [](C17_Cases) /\ [][C17_Step]_vars_all

C17_Witness ==
  /\ Finished
  /\ LineWords = <<w7, wOpen, w1, wOpen, w2>>
  /\ out = <<<<Num(7), Block(<<Num(1), Block(<<Num(2)>>)>>)>>>>

---------------------------------------------------------------------------
(* C18 *)

\* eval is about to be called with a value that is no Operator
DataNext == EvalEnabled /\ NextCode.tag \in {"Num", "Sym", "Block"}

C18_PushStep ==
  DataNext =>
    /\ pc' = "parse"
    /\ err' = err
    /\ Len(stack') = Len(stack) + 1
    /\ stack'[Len(stack')] = NextCode
    /\ \A i \in 1..Len(stack) : stack'[i] = stack[i]
    /\ vars' = vars
    /\ Len(ctrl') = Len(ctrl)
    /\ out' = out

C18_Cases ==
  (Finished \/ Panicked) /\ LineWords = IfLine(<<w1>>, <<wOpen, w7, wClose, wSx>>, <<>>)
    => (Panicked /\ err = "UndefinedOperation" /\ stack = <<Block(<<Num(7)>>)>>)

\* C18: evaluating a Number, a Symbol or a Block, at top level or as a token
\* of a block run by `if`, always succeeds, lengthens the stack by exactly one
\* element, equal to that value, and leaves the elements already on the stack
\* and the environment as they are; a Block inside a block that is run is
\* pushed as data, not run.
C18_PushFrame == [](C18_Cases) /\ [][C18_PushStep]_vars_all

C18_Witness ==
  /\ pc = "parse"
  /\ Len(ctrl) = 1
  /\ ctrl[1].phase = "branch"
  /\ ctrl[1].code = <<Op(wSx)>>
  /\ stack = <<Block(<<Num(7)>>)>>

---------------------------------------------------------------------------
(* C19 *)

\* eval is about to be called with an Operator that is a bound name
BoundNext ==
  /\ EvalEnabled
  /\ NextCode.tag = "Op"
  /\ NextCode.text \notin Builtins
  /\ NextCode.text \in DOMAIN vars

C19_EnvStep ==
  pc = "parse" =>
    /\ (vars' # vars => Evaluating(Op(wDef)))
    /\ \A k \in DOMAIN vars : k \in DOMAIN vars'
    /\ BoundNext =>
         /\ stack' = Append(stack, vars[NextCode.text])
         /\ vars' = vars
         /\ Len(ctrl') = Len(ctrl)
         /\ pc' = "parse"

\* C19: while a line is processed, the environment of its machine changes
\* only in a `def` step: arithmetic, the pops and the branching of `if`,
\* pushes and lookups leave it as it is, and no step removes a key; the lookup
\* of a bound name pushes a copy of the bound value as data, a bound Block
\* too, which is not run, and the binding stays.
C19_EnvChangesOnlyInDef == [][C19_EnvStep]_vars_all

C19_Witness ==
  /\ pc = "parse"
  /\ ctrl = <<>>
  /\ Consumed = <<wSx, wOpen, w1, wClose, wDef, wOpen, w1, wClose, wx>>
  /\ stack = <<Block(<<Num(1)>>), Block(<<Num(1)>>)>>
  /\ DOMAIN vars = {wx}
  /\ vars[wx] = Block(<<Num(1)>>)

---------------------------------------------------------------------------
(* C20 *)

\* the line being processed holds no word `def`
NoDefLine == lineNo >= 1 /\ \A i \in 1..Len(LineWords) : LineWords[i] # wDef

\* the number of words `if` of the line
IfCount == Cardinality({i \in 1..Len(LineWords) : LineWords[i] = wIf})

\* parse is at work on a line without `def`
Busy == pc = "parse" /\ NoDefLine

\* the work the tokens of code stand for when they are run: 2 for a token that
\* is no Block, 4 more than its tokens for a Block
RECURSIVE CodeWeight(_)
CodeWeight(code) ==
  IF code = <<>> THEN 0
  ELSE (IF Head(code).tag = "Block" THEN 4 + CodeWeight(Head(code).items) ELSE 2)
         + CodeWeight(Tail(code))

\* a value on the stack weighs one less than the token that pushed it
StackWeight(st) == CodeWeight(st) - Len(st)

\* an op_if call still has its block to run, then its test or its return
FrameWeight(fr) ==
  IF fr.phase = "cond"
  THEN CodeWeight(fr.code) + CodeWeight(fr.true_branch) + CodeWeight(fr.false_branch) + 2
  ELSE CodeWeight(fr.code) + 1

RECURSIVE CtrlWeight(_)
CtrlWeight(c) == IF c = <<>> THEN 0 ELSE FrameWeight(Head(c)) + CtrlWeight(Tail(c))

\* the work left on the line: a natural number
Measure == 5 * Len(words) + StackWeight(stack) + CtrlWeight(ctrl)

\* no op_if call is nested in a call of the same `if`, nothing is bound, and
\* the work left is a natural number
C20_State ==
  /\ NoDefLine => (Len(ctrl) <= IfCount /\ vars = EmptyMap)
  /\ Busy => Measure >= 0

\* a step of the top-level loop leaves a strictly shorter suffix of the words,
\* and every step that does not end the line leaves less work
C20_Step ==
  /\ (Busy /\ ctrl = <<>> /\ pc' = "parse") =>
       /\ Len(words') < Len(words)
       /\ words' = SubSeq(words, Len(words) - Len(words') + 1, Len(words))
  /\ (Busy /\ pc' = "parse") => Measure' < Measure
  /\ (Busy /\ pc' # "parse") =>
       \/ pc' = "main" /\ out' = Append(out, stack') /\ err' = "none"
       \/ pc' = "panic" /\ err' \notin {"none", "StackOverflow"} /\ out' = out

\* C20: the processing of a line without the word `def` always ends, with a
\* final stack or with a fatal error: every step of the top-level loop leaves
\* a strictly shorter suffix of the words, and `if` runs only blocks parsed
\* from the line, no `if` inside its own call, so every step that does not end
\* the line leaves strictly less work to do, the work left being a natural
\* number, and the evaluation cannot loop; the step that ends the line yields
\* the final stack or is a fatal error of the program, not the exhaustion of
\* the call stack.
C20_Terminates == [](C20_State) /\ [][C20_Step]_vars_all

C20_Witness ==
  /\ Finished
  /\ LineWords = <<wOpen, w1, wClose, wOpen, w7, wClose, wOpen, w9, wClose>>
                   \o IfLine(<<w1>>, <<wIf>>, <<>>)
  /\ out = <<<<Num(7)>>>>

============================================================================
